---- MODULE Spec2Model ----
(***************************************************************************)
(* A model of the chat-backup tool of src/viewer.js.  The file holds three *)
(* programs: the terminal viewer (lines 1-89), the backup tool (lines      *)
(* 91-345, "variant 1") and an earlier copy of the backup tool (lines      *)
(* 346-532, "variant 2").  The two backup variants share processMessage's  *)
(* log and media branches, appendToJson and checkDuplicate; they differ in *)
(* the Path Resolver and in the Sync Driver.                                *)
(*                                                                         *)
(* Strings are sequences of one-character strings, so that the regular     *)
(* expression replace, trim and split are computed character by character. *)
(***************************************************************************)
EXTENDS Integers, Sequences, FiniteSets, TLC

\* ------------------------------------------------------------------------
\* Bounds of the model (not program constants)
\* ------------------------------------------------------------------------
MaxNameLen == 3

\* ------------------------------------------------------------------------
\* Characters and strings
\* ------------------------------------------------------------------------
Letters ==
    {"a","b","c","d","e","f","g","h","i","j","k","l","m",
     "n","o","p","q","r","s","t","u","v","w","x","y","z",
     "A","B","C","D","E","F","G","H","I","J","K","L","M",
     "N","O","P","Q","R","S","T","U","V","W","X","Y","Z"}

Digits == {"0","1","2","3","4","5","6","7","8","9"}

\* The complement of the character class [^a-zA-Z0-9_\- ] of lines 185, 198, 408, 413.
SafeChars == Letters \cup Digits \cup {"_", "-", " "}

\* What String.prototype.trim removes (the white space and line terminators
\* that can occur in the model's alphabet).
WhiteSpace == {" ", "\t", "\n", "\r"}

Min(S) == CHOOSE x \in S : \A y \in S : x <= y

Max(S) == CHOOSE x \in S : \A y \in S : x >= y

\* s.trim()
Trim(s) ==
    LET keep == {i \in 1..Len(s) : s[i] \notin WhiteSpace}
    IN  IF keep = {} THEN <<>> ELSE SubSeq(s, Min(keep), Max(keep))

\* A mutant of ReplaceUnsafe: the regular expression without its g flag
\* replaces the first match only.
ReplaceUnsafeFirstOnly(s) ==
    LET bad == {i \in 1..Len(s) : s[i] \notin SafeChars}
    IN  [i \in 1..Len(s) |-> IF bad # {} /\ i = Min(bad) THEN "_" ELSE s[i]]

\* s.replace(/[^a-zA-Z0-9_\- ]/g, '_')
ReplaceUnsafe(s) == [i \in 1..Len(s) |-> IF s[i] \in SafeChars THEN s[i] ELSE "_"]

\* s.replace(/[^a-zA-Z0-9_\- ]/g, '_').trim()
Sanitize(s) == Trim(ReplaceUnsafe(s))

\* s.split('@')[0]: the part before the first '@', the whole string without one.
SplitAt(s) ==
    LET ats == {i \in 1..Len(s) : s[i] = "@"}
    IN  IF ats = {} THEN s ELSE SubSeq(s, 1, Min(ats) - 1)

\* a || b on strings: the empty (or undefined) string is falsy.
OrElse(a, b) == IF a # <<>> THEN a ELSE b

\* chat.id._serialized: user@server
Serialized(id) == id.user \o <<"@">> \o id.server

DirectServer == <<"c", ".", "u", "s">>

GroupServer == <<"g", ".", "u", "s">>

\* ------------------------------------------------------------------------
\* Path Resolver
\* ------------------------------------------------------------------------
\* A resolution answers a base name, or throws.
Named(base) == [threw |-> FALSE, base |-> base]

Thrown == [threw |-> TRUE, base |-> <<>>]

\* contact.name || contact.pushname || contact.id.user
ContactName(contact) == OrElse(contact.name, OrElse(contact.pushname, contact.user))

\* Variant 1: getChatFilenameBase(chat, msgFrom).  lookup is what
\* client.getContactById answered: [ok |-> FALSE] when it threw, else
\* [ok |-> TRUE, name, pushname, user].  The function catches the lookup's
\* exception itself and never throws.
getChatFilenameBase(chat, msgFrom, lookup) ==
    IF ~chat.isGroup
    THEN IF lookup.ok
         THEN IF ContactName(lookup) # <<>>
              THEN Named(Sanitize(ContactName(lookup)))
              ELSE Named(Serialized(chat.id))
         ELSE LET phoneNumber == IF msgFrom # <<>> THEN SplitAt(msgFrom) ELSE chat.id.user
              IN  IF Len(phoneNumber) > 0
                  THEN Named(phoneNumber)
                  ELSE Named(Serialized(chat.id))
    ELSE LET trimmed == IF chat.name # <<>> THEN Trim(chat.name) ELSE <<>>
         IN  Named(Sanitize(OrElse(trimmed, Serialized(chat.id))))

\* Variant 2: the naming block inside processMessage.  lookup is what
\* msg.getContact answered; the block has no handler of its own, so a lookup
\* that throws leaves processMessage's try block.
filenameBase2(chat, lookup) ==
    IF ~chat.isGroup
    THEN IF lookup.ok
         THEN IF ContactName(lookup) # <<>>
              THEN Named(Sanitize(ContactName(lookup)))
              ELSE Named(Serialized(chat.id))
         ELSE Thrown
    ELSE Named(Sanitize(OrElse(chat.name, Serialized(chat.id))))

\* The Path Resolver of the given variant.
ResolveBase(variant, chat, msgFrom, lookup) ==
    IF variant = 1
    THEN getChatFilenameBase(chat, msgFrom, lookup)
    ELSE filenameBase2(chat, lookup)

\* ------------------------------------------------------------------------
\* Inputs of the Path Resolver check
\* ------------------------------------------------------------------------
\* Representatives of the character classes: a letter, '-', the space, a
\* white-space character that is not the space, and a character outside
\* the class.
NameAlphabet == {"a", "-", " ", "\t", "#"}

RECURSIVE StringsUpTo(_)
StringsUpTo(n) ==
    IF n = 0 THEN {<<>>}
    ELSE LET shorter == StringsUpTo(n - 1)
         IN  shorter \cup {Append(s, c) : s \in {t \in shorter : Len(t) = n - 1}, c \in NameAlphabet}

\* The spec's example, "O'Brien/Team #1", and its expected folder name.
ExampleName ==
    <<"O", "'", "B", "r", "i", "e", "n", "/", "T", "e", "a", "m", " ", "#", "1">>

ExampleFolder ==
    <<"O", "_", "B", "r", "i", "e", "n", "_", "T", "e", "a", "m", " ", "_", "1">>

DisplayNames == StringsUpTo(MaxNameLen) \cup {ExampleName}

UserIds == {<<"4", "2">>}

SenderFields == {<<>>, <<"9", "1", "@">> \o DirectServer}

ResolverInputs ==
    [variant : {1, 2},
     isGroup : BOOLEAN,
     name : DisplayNames,
     pushname : {<<>>, <<"p", "n">>},
     contactUser : UserIds,
     chatUser : {<<"4", "2">>},
     lookupOk : BOOLEAN,
     msgFrom : SenderFields]

InputChat(in) ==
    [isGroup |-> in.isGroup,
     name |-> IF in.isGroup THEN in.name ELSE <<>>,
     id |-> [user |-> in.chatUser,
             server |-> IF in.isGroup THEN GroupServer ELSE DirectServer]]

InputLookup(in) ==
    IF in.lookupOk
    THEN [ok |-> TRUE, name |-> in.name, pushname |-> in.pushname, user |-> in.contactUser]
    ELSE [ok |-> FALSE]


\* ------------------------------------------------------------------------
\* The provider's world: conversations, contacts, messages
\* ------------------------------------------------------------------------
MaxMsgId == 3

\* Live message_create events in one run (each runs in a slot of its own).
MaxLive == 2

\* processMessage calls of a one-at-a-time run.
MaxCalls == 3

\* Records fed to appendToJson in a run of the Archival Writer alone.
MaxFeeds == 4

\* Provider and file-read failures in one run.
MaxFaults == 1

MsgIds == 1..MaxMsgId

\* Conversations: "A" and "B" are direct, "G" is a group.
ChatKeys == {"A", "B", "G"}

MyId == [user |-> <<"9", "9">>, server |-> DirectServer]

ChatOf(c) ==
    CASE c = "A" -> [key |-> "A", isGroup |-> FALSE, name |-> <<"A", "l">>,
                     id |-> [user |-> <<"4", "2">>, server |-> DirectServer]]
      [] c = "B" -> [key |-> "B", isGroup |-> FALSE, name |-> <<"B", "o">>,
                     id |-> [user |-> <<"4", "3">>, server |-> DirectServer]]
      [] c = "G" -> [key |-> "G", isGroup |-> TRUE, name |-> <<"G", "#", "1">>,
                     id |-> [user |-> <<"7", "7">>, server |-> GroupServer]]

\* The contact the provider holds for a user id.
ContactOf(user) ==
    CASE user = <<"4", "2">> -> [ok |-> TRUE, name |-> <<"A", "l">>, pushname |-> <<"a">>,
                                 user |-> user]
      [] user = <<"4", "3">> -> [ok |-> TRUE, name |-> <<>>, pushname |-> <<"B", "/", "o">>,
                                 user |-> user]
      [] OTHER -> [ok |-> TRUE, name |-> <<>>, pushname |-> <<"M", "e">>, user |-> user]

\* Message i of conversation c.  Ids are chronological within a conversation;
\* the other fields follow the id so that every kind of message occurs:
\* 1 is a text from the partner, 2 a view-once media message from the
\* partner, 3 a media message sent by me, 4 a text sent by me.
Msg(i, c) ==
    LET chat == ChatOf(c)
        fromMe == i >= 3
        partner == IF chat.isGroup THEN [user |-> <<"4", "2">>, server |-> DirectServer]
                   ELSE chat.id
    IN  [id |-> i,
         chat |-> c,
         fromMe |-> fromMe,
         from |-> IF fromMe THEN Serialized(MyId)
                  ELSE IF chat.isGroup THEN Serialized(chat.id) ELSE Serialized(partner),
         to |-> IF fromMe THEN Serialized(chat.id) ELSE Serialized(MyId),
         author |-> IF chat.isGroup
                    THEN (IF fromMe THEN Serialized(MyId) ELSE Serialized(partner))
                    ELSE <<>>,
         senderUser |-> IF fromMe THEN MyId.user ELSE partner.user,
         body |-> "text" \o ToString(i),
         timestamp |-> i,
         hasMedia |-> i \in {2, 3},
         isViewOnce |-> i = 2]

Messages == {Msg(i, c) : i \in MsgIds, c \in ChatKeys}

\* new Date(msg.timestamp * 1000).toISOString().split('T')[0]: messages 1 and 2
\* fall on one day, later ones on the next.
DateStr(timestamp) == IF timestamp <= 2 THEN "2024-01-01" ELSE "2024-01-02"

\* new Date(msg.timestamp * 1000).toISOString(): the instant, one per timestamp.
IsoString(timestamp) == DateStr(timestamp) \o "T00:00:0" \o ToString(timestamp) \o ".000Z"

\* messageData of processMessage
MessageData(msg) ==
    [id |-> msg.id,
     from |-> msg.from,
     to |-> msg.to,
     author |-> OrElse(msg.author, msg.from),
     body |-> msg.body,
     timestamp |-> IsoString(msg.timestamp),
     hasMedia |-> msg.hasMedia,
     isSentByMe |-> msg.fromMe,
     isViewOnce |-> msg.isViewOnce]

\* mime.extension(media.mimetype) || 'bin'
Extension(mimetype) ==
    CASE mimetype = "image/jpeg" -> "jpeg"
      [] mimetype = "video/mp4" -> "mp4"
      [] OTHER -> "bin"

MimeTypes == {"image/jpeg", "application/x-unknown"}

\* `${prefix}${msg.id.id}.${extension}` inside mediaDir
MediaPath(msg, base, mimetype) ==
    [day |-> DateStr(msg.timestamp),
     base |-> base,
     prefix |-> IF msg.isViewOnce THEN "VIEWONCE_" ELSE "",
     id |-> msg.id,
     ext |-> Extension(mimetype)]

\* config.json: the keys processMessage and syncRecentMessages read.
\* SYNC_LIMIT 0 stands for a key that is absent (or 0): the default applies.
SyncLimits == {0, 2}

Configs ==
    [SAVE_GROUPS : BOOLEAN, SAVE_MESSAGES : BOOLEAN, SAVE_MEDIA : BOOLEAN,
     SYNC_LIMIT : SyncLimits]

\* config.SYNC_LIMIT || 99999 (variant 1), config.SYNC_LIMIT || 50 (variant 2)
DefaultLimit1 == 99999

DefaultLimit2 == 50

\* client.getChats(): the conversations, in the provider's order.
ChatList == <<"A", "G", "B">>

\* The ids of the conversation's history: "A" holds every message, "G" the
\* first two, "B" the first.
HistoryLen(c) == CASE c = "A" -> MaxMsgId [] c = "G" -> 2 [] OTHER -> 1

\* chat.fetchMessages({limit}): the newest `limit` messages, newest first.
FetchMessages(c, limit) ==
    LET len == HistoryLen(c)
        n == IF limit < len THEN limit ELSE len
    IN  [k \in 1..n |-> Msg(len - k + 1, c)]

\* messages.reverse()
Reverse(seq) == [k \in 1..Len(seq) |-> seq[Len(seq) - k + 1]]

\* ------------------------------------------------------------------------
\* Helpers: the log file
\* ------------------------------------------------------------------------
\* A messages.json that exists: parsable with its records, or not parsable.
GoodLog(records) == [ok |-> TRUE, data |-> records]

CorruptLog == [ok |-> FALSE, data |-> <<>>]

\* A mutant of SomeId: only the last record is compared.
SomeIdLastOnly(data, msgId) == Len(data) > 0 /\ data[Len(data)].id = msgId

\* data.some(m => m.id === msgId)
SomeId(data, msgId) == \E k \in 1..Len(data) : data[k].id = msgId

\* checkDuplicate(filePath, msgId), given whether the file exists and what
\* readJson answers: "ok" with the records, or "throws".
checkDuplicate(exists, read, data, msgId) ==
    IF exists
    THEN IF read = "ok" THEN SomeId(data, msgId) ELSE FALSE
    ELSE FALSE

\* A mutant of IsLatest: the last-id test is missing.
IsLatestNever(data, newData) == FALSE

\* appendToJson's test of line 324: the new record repeats the last one's id.
IsLatest(data, newData) == Len(data) > 0 /\ data[Len(data)].id = newData.id

\* data.push(newData)
Push(data, newData) == Append(data, newData)

\* ------------------------------------------------------------------------
\* State
\* ------------------------------------------------------------------------
VARIABLES
    variant,     \* which backup tool runs: 1 (lines 91-345) or 2 (lines 346-532)
    config,      \* config.json
    chatDirs,    \* the folders under <BACKUP_DIR>/chats
    logs,        \* folder -> its messages.json, for the folders that hold one
    mediaDirs,   \* the folders <BACKUP_DIR>/media/<day>/<folder>
    media,       \* media file path -> the number of writeFile calls that wrote it
    proc,        \* slot -> a processMessage invocation: its position and locals
    sync,        \* the ready handler and syncRecentMessages: position and locals
    faults,      \* provider and read failures so far
    calls,       \* calls made by the one-at-a-time caller
    feed,        \* history: <<folder, id>> of each entry into the log branch / appendToJson
    readFailed,  \* history: some readJson of a log threw
    nmIn,        \* the Path Resolver's input under check
    nmOut,       \* its answer: [done |-> FALSE] before the call
    life,        \* the tool's process: up, in the disconnected handler, or exited
    viewer       \* the viewer's run: position, listing, what it printed, rl.close() calls

vars ==
    <<variant, config, chatDirs, logs, mediaDirs, media, proc, sync, faults, calls,
      feed, readFailed, nmIn, nmOut,
      life, viewer>>

\* Slot 0 runs the calls of the Sync Driver (and of the one-at-a-time
\* caller); slots 1..MaxLive run the message_create handlers.
Slots == 0..MaxLive

LiveSlots == 1..MaxLive

NoMsg == [id |-> 0]

IdleProc ==
    [pc |-> "idle", msg |-> NoMsg, base |-> <<>>, isDup |-> FALSE, data |-> <<>>,
     mime |-> "", outcome |-> "none"]

\* The invocation does not run: never started, or returned.
Resting(p) == proc[p].pc \in {"idle", "done"}

IdleSync ==
    [pc |-> "off", chats |-> <<>>, i |-> 0, msgs |-> <<>>, j |-> 0, fetched |-> {},
     outcome |-> "none"]

\* The process runs and no disconnected event has arrived.
Running == [pc |-> "up", destroyed |-> "none", code |-> -1]

\* The viewer has not been started.
ViewerOff ==
    [pc |-> "off", folders |-> <<>>, selected |-> <<>>, prompted |-> FALSE,
     out |-> <<>>, shown |-> 0, closes |-> 0]

NoInput ==
    [variant |-> 1, isGroup |-> FALSE, name |-> <<>>, pushname |-> <<>>,
     contactUser |-> <<>>, chatUser |-> <<>>, lookupOk |-> FALSE, msgFrom |-> <<>>]

\* The folder the Path Resolver gives conversation "A" when the lookup succeeds.
FolderA == Sanitize(ContactName(ContactOf(ChatOf("A").id.user)))

\* What a run may find on disk: nothing, or a log of conversation "A" left by
\* an earlier run: an empty array, or a file that does not parse (a rewrite
\* that was interrupted).
InitialDisks ==
    {[dirs |-> {}, logs |-> <<>>],
     [dirs |-> {FolderA}, logs |-> (FolderA :> GoodLog(<<>>))],
     [dirs |-> {FolderA}, logs |-> (FolderA :> CorruptLog)]}

\* Everything but the Path Resolver check, at rest.
ToolInit(disk) ==
    /\ variant \in {1, 2}
    /\ config \in Configs
    /\ chatDirs = disk.dirs
    /\ logs = disk.logs
    /\ mediaDirs = {}
    /\ media = <<>>
    /\ proc = [p \in Slots |-> IdleProc]
    /\ sync = IdleSync
    /\ faults = 0
    /\ calls = 0
    /\ feed = <<>>
    /\ readFailed = FALSE
    /\ life = Running
    /\ viewer = ViewerOff

NamesIdle ==
    /\ nmIn = NoInput
    /\ nmOut = [done |-> FALSE]

\* ------------------------------------------------------------------------
\* processMessage(msg), one action per await
\* ------------------------------------------------------------------------
Started(msg) == [IdleProc EXCEPT !.pc = "getChat", !.msg = msg]

\* A mutant of AfterLog: the media branch does not test SAVE_MEDIA.
AfterLogAnyConfig(msg) == IF msg.hasMedia THEN "mediaEnsure" ELSE "done"

\* Where processMessage goes after its log branch (lines 249-250, 450-451).
AfterLog(msg) == IF config.SAVE_MEDIA /\ msg.hasMedia THEN "mediaEnsure" ELSE "done"

\* The contact lookup the variant makes for a direct conversation: variant 1
\* asks for the conversation's partner (client.getContactById(chat.id)),
\* variant 2 for the message's sender (msg.getContact()).
LookupOf(msg) ==
    IF variant = 1
    THEN ContactOf(ChatOf(msg.chat).id.user)
    ELSE ContactOf(msg.senderUser)

\* A mutant of Skipped: the group test is missing.
SkippedNever(c) == FALSE

\* if (chat.isGroup && !config.SAVE_GROUPS): return in processMessage (line
\* 209), continue in syncRecentMessages (line 294).
Skipped(c) == ChatOf(c).isGroup /\ ~config.SAVE_GROUPS

toolFrame == <<variant, config, calls, nmIn, nmOut,
      life, viewer>>

\* await msg.getChat() answers; groups are skipped when SAVE_GROUPS is off.
GetChatOk(p) ==
    /\ proc[p].pc = "getChat"
    /\ proc' = [proc EXCEPT ![p] =
                  IF Skipped(proc[p].msg.chat)
                  THEN [@ EXCEPT !.pc = "done", !.outcome = "skipped"]
                  ELSE [@ EXCEPT !.pc = "resolve"]]
    /\ UNCHANGED <<chatDirs, logs, mediaDirs, media, sync, faults, feed, readFailed, toolFrame>>

\* await msg.getChat() throws: the outer catch logs and returns.
GetChatThrows(p) ==
    /\ proc[p].pc = "getChat"
    /\ faults < MaxFaults
    /\ faults' = faults + 1
    /\ proc' = [proc EXCEPT ![p] = [@ EXCEPT !.pc = "done", !.outcome = "chatError"]]
    /\ UNCHANGED <<chatDirs, logs, mediaDirs, media, sync, feed, readFailed, toolFrame>>

\* The Path Resolver with a lookup that answers (a group needs no lookup).
ResolveOk(p) ==
    /\ proc[p].pc = "resolve"
    /\ LET msg == proc[p].msg
           r == ResolveBase(variant, ChatOf(msg.chat), msg.from, LookupOf(msg))
       IN  proc' = [proc EXCEPT ![p] = [@ EXCEPT !.pc = "ensureDir", !.base = r.base]]
    /\ UNCHANGED <<chatDirs, logs, mediaDirs, media, sync, faults, feed, readFailed, toolFrame>>

\* The Path Resolver with a lookup that throws (direct conversations only).
ResolveThrows(p) ==
    /\ proc[p].pc = "resolve"
    /\ ~ChatOf(proc[p].msg.chat).isGroup
    /\ faults < MaxFaults
    /\ faults' = faults + 1
    /\ LET msg == proc[p].msg
           r == ResolveBase(variant, ChatOf(msg.chat), msg.from, [ok |-> FALSE])
       IN  proc' = [proc EXCEPT ![p] =
                      IF r.threw
                      THEN [@ EXCEPT !.pc = "done", !.outcome = "contactError"]
                      ELSE [@ EXCEPT !.pc = "ensureDir", !.base = r.base]]
    /\ UNCHANGED <<chatDirs, logs, mediaDirs, media, sync, feed, readFailed, toolFrame>>

\* await fs.ensureDir(contactChatDir)
EnsureDir(p) ==
    /\ proc[p].pc = "ensureDir"
    /\ chatDirs' = chatDirs \cup {proc[p].base}
    /\ proc' = [proc EXCEPT ![p] =
                  [@ EXCEPT !.pc = IF config.SAVE_MESSAGES THEN "dupExists"
                                   ELSE AfterLog(proc[p].msg)]]
    /\ UNCHANGED <<logs, mediaDirs, media, sync, faults, feed, readFailed, toolFrame>>

\* checkDuplicate: await fs.pathExists(filePath)
DupExists(p) ==
    /\ proc[p].pc = "dupExists"
    /\ feed' = Append(feed, <<proc[p].base, proc[p].msg.id>>)
    /\ proc' = [proc EXCEPT ![p] =
                  IF proc[p].base \in DOMAIN logs
                  THEN [@ EXCEPT !.pc = "dupRead"]
                  ELSE [@ EXCEPT !.pc = "apExists",
                                 !.isDup = checkDuplicate(FALSE, "ok", <<>>, proc[p].msg.id)]]
    /\ UNCHANGED <<chatDirs, logs, mediaDirs, media, sync, faults, readFailed, toolFrame>>

\* checkDuplicate: await fs.readJson(filePath) answers the records.
DupReadOk(p) ==
    /\ proc[p].pc = "dupRead"
    /\ logs[proc[p].base].ok
    /\ LET dup == checkDuplicate(TRUE, "ok", logs[proc[p].base].data, proc[p].msg.id)
       IN  proc' = [proc EXCEPT ![p] =
                      [@ EXCEPT !.isDup = dup,
                                !.pc = IF dup THEN AfterLog(proc[p].msg) ELSE "apExists"]]
    /\ UNCHANGED <<chatDirs, logs, mediaDirs, media, sync, faults, feed, readFailed, toolFrame>>

\* checkDuplicate: await fs.readJson(filePath) throws (the file does not
\* parse, or the read fails).
DupReadThrows(p) ==
    /\ proc[p].pc = "dupRead"
    /\ \/ ~logs[proc[p].base].ok /\ faults' = faults
       \/ logs[proc[p].base].ok /\ faults < MaxFaults /\ faults' = faults + 1
    /\ readFailed' = TRUE
    /\ LET dup == checkDuplicate(TRUE, "throws", <<>>, proc[p].msg.id)
       IN  proc' = [proc EXCEPT ![p] =
                      [@ EXCEPT !.isDup = dup,
                                !.pc = IF dup THEN AfterLog(proc[p].msg) ELSE "apExists"]]
    /\ UNCHANGED <<chatDirs, logs, mediaDirs, media, sync, feed, toolFrame>>

\* appendToJson: await fs.pathExists(filePath); an absent file leaves data = [].
ApExists(p) ==
    /\ proc[p].pc = "apExists"
    /\ proc' = [proc EXCEPT ![p] =
                  IF proc[p].base \in DOMAIN logs
                  THEN [@ EXCEPT !.pc = "apRead"]
                  ELSE [@ EXCEPT !.pc = "apWrite", !.data = <<>>]]
    /\ UNCHANGED <<chatDirs, logs, mediaDirs, media, sync, faults, feed, readFailed, toolFrame>>

\* appendToJson: await fs.readJson(filePath) answers; line 324 returns when
\* the new record repeats the last one's id.
ApReadOk(p) ==
    /\ proc[p].pc = "apRead"
    /\ logs[proc[p].base].ok
    /\ LET data == logs[proc[p].base].data
       IN  proc' = [proc EXCEPT ![p] =
                      [@ EXCEPT !.data = data,
                                !.pc = IF IsLatest(data, MessageData(proc[p].msg))
                                       THEN AfterLog(proc[p].msg)
                                       ELSE "apWrite"]]
    /\ UNCHANGED <<chatDirs, logs, mediaDirs, media, sync, faults, feed, readFailed, toolFrame>>

\* appendToJson: await fs.readJson(filePath) throws; the catch sets data = [].
ApReadThrows(p) ==
    /\ proc[p].pc = "apRead"
    /\ \/ ~logs[proc[p].base].ok /\ faults' = faults
       \/ logs[proc[p].base].ok /\ faults < MaxFaults /\ faults' = faults + 1
    /\ readFailed' = TRUE
    /\ proc' = [proc EXCEPT ![p] = [@ EXCEPT !.data = <<>>, !.pc = "apWrite"]]
    /\ UNCHANGED <<chatDirs, logs, mediaDirs, media, sync, feed, toolFrame>>

\* A mutant of Rewritten: a true append to the file's current records.
RewrittenInPlace(data, current, newData) == GoodLog(Push(current, newData))

\* appendToJson: data.push(newData) on the copy it read, then fs.writeJson(filePath, data)
\* replaces the whole file with that copy; the file's current records are not consulted.
Rewritten(data, current, newData) == GoodLog(Push(data, newData))

\* appendToJson: data.push(newData); await fs.writeJson(filePath, data)
ApWrite(p) ==
    /\ proc[p].pc = "apWrite"
    /\ LET base == proc[p].base
           current == IF base \in DOMAIN logs /\ logs[base].ok THEN logs[base].data ELSE <<>>
           written == Rewritten(proc[p].data, current, MessageData(proc[p].msg))
       IN  logs' = [b \in DOMAIN logs \cup {base} |-> IF b = base THEN written ELSE logs[b]]
    /\ proc' = [proc EXCEPT ![p] = [@ EXCEPT !.pc = AfterLog(proc[p].msg)]]
    /\ UNCHANGED <<chatDirs, mediaDirs, media, sync, faults, feed, readFailed, toolFrame>>

\* await fs.ensureDir(mediaDir)
MediaEnsure(p) ==
    /\ proc[p].pc = "mediaEnsure"
    /\ mediaDirs' = mediaDirs \cup {<<DateStr(proc[p].msg.timestamp), proc[p].base>>}
    /\ proc' = [proc EXCEPT ![p] = [@ EXCEPT !.pc = "download"]]
    /\ UNCHANGED <<chatDirs, logs, media, sync, faults, feed, readFailed, toolFrame>>

\* await msg.downloadMedia() answers a media object of some content type.
DownloadOk(p) ==
    /\ proc[p].pc = "download"
    /\ \E mimetype \in MimeTypes :
          proc' = [proc EXCEPT ![p] = [@ EXCEPT !.pc = "mediaExists", !.mime = mimetype]]
    /\ UNCHANGED <<chatDirs, logs, mediaDirs, media, sync, faults, feed, readFailed, toolFrame>>

\* await msg.downloadMedia() answers undefined: nothing to save.
DownloadNothing(p) ==
    /\ proc[p].pc = "download"
    /\ faults < MaxFaults
    /\ faults' = faults + 1
    /\ proc' = [proc EXCEPT ![p] = [@ EXCEPT !.pc = "done", !.outcome = "noMedia"]]
    /\ UNCHANGED <<chatDirs, logs, mediaDirs, media, sync, feed, readFailed, toolFrame>>

\* await msg.downloadMedia() throws: the inner catch logs.
DownloadThrows(p) ==
    /\ proc[p].pc = "download"
    /\ faults < MaxFaults
    /\ faults' = faults + 1
    /\ proc' = [proc EXCEPT ![p] = [@ EXCEPT !.pc = "done", !.outcome = "mediaError"]]
    /\ UNCHANGED <<chatDirs, logs, mediaDirs, media, sync, feed, readFailed, toolFrame>>

\* A mutant of FileExists: the media file is never found.
FileExistsNever(path) == FALSE

\* fs.pathExists(filePath) of the media file
FileExists(path) == path \in DOMAIN media

\* await fs.pathExists(filePath): an existing file is left alone.
MediaExists(p) ==
    /\ proc[p].pc = "mediaExists"
    /\ proc' = [proc EXCEPT ![p] =
                  IF FileExists(MediaPath(proc[p].msg, proc[p].base, proc[p].mime))
                  THEN [@ EXCEPT !.pc = "done", !.outcome = "mediaKept"]
                  ELSE [@ EXCEPT !.pc = "mediaWrite"]]
    /\ UNCHANGED <<chatDirs, logs, mediaDirs, media, sync, faults, feed, readFailed, toolFrame>>

\* await fs.writeFile(filePath, media.data, 'base64')
MediaWriteOk(p) ==
    /\ proc[p].pc = "mediaWrite"
    /\ LET path == MediaPath(proc[p].msg, proc[p].base, proc[p].mime)
           before == IF path \in DOMAIN media THEN media[path] ELSE 0
       IN  media' = [f \in DOMAIN media \cup {path} |->
                       IF f = path THEN before + 1 ELSE media[f]]
    /\ proc' = [proc EXCEPT ![p] = [@ EXCEPT !.pc = "done", !.outcome = "mediaSaved"]]
    /\ UNCHANGED <<chatDirs, logs, mediaDirs, sync, faults, feed, readFailed, toolFrame>>

\* await fs.writeFile throws: the inner catch logs.
MediaWriteThrows(p) ==
    /\ proc[p].pc = "mediaWrite"
    /\ faults < MaxFaults
    /\ faults' = faults + 1
    /\ proc' = [proc EXCEPT ![p] = [@ EXCEPT !.pc = "done", !.outcome = "mediaError"]]
    /\ UNCHANGED <<chatDirs, logs, mediaDirs, media, sync, feed, readFailed, toolFrame>>

\* One step of the invocation in slot p.
ProcessMessage(p) ==
    \/ GetChatOk(p)
    \/ GetChatThrows(p)
    \/ ResolveOk(p)
    \/ ResolveThrows(p)
    \/ EnsureDir(p)
    \/ DupExists(p)
    \/ DupReadOk(p)
    \/ DupReadThrows(p)
    \/ ApExists(p)
    \/ ApReadOk(p)
    \/ ApReadThrows(p)
    \/ ApWrite(p)
    \/ MediaEnsure(p)
    \/ DownloadOk(p)
    \/ DownloadNothing(p)
    \/ DownloadThrows(p)
    \/ MediaExists(p)
    \/ MediaWriteOk(p)
    \/ MediaWriteThrows(p)

\* ------------------------------------------------------------------------
\* One call at a time
\* ------------------------------------------------------------------------
\* The messages the one-at-a-time caller passes: those of one conversation.
SeqMessages == {msg \in Messages : msg.chat = "A"}

\* A caller that awaits each processMessage before it makes the next.
SeqCall ==
    /\ \A p \in Slots : Resting(p)
    /\ calls < MaxCalls
    /\ calls' = calls + 1
    /\ \E msg \in SeqMessages : proc' = [proc EXCEPT ![0] = Started(msg)]
    /\ UNCHANGED <<variant, config, chatDirs, logs, mediaDirs, media, sync, faults, feed,
                   readFailed, nmIn, nmOut,
      life, viewer>>

InitSeq ==
    /\ \E disk \in InitialDisks : ToolInit(disk)
    /\ config.SYNC_LIMIT = 0
    /\ NamesIdle

NextSeq == SeqCall \/ ProcessMessage(0)

SpecSeq == InitSeq /\ [][NextSeq]_vars

\* ------------------------------------------------------------------------
\* The ready handler and syncRecentMessages
\* ------------------------------------------------------------------------
syncFrame == <<variant, config, chatDirs, logs, mediaDirs, media, calls, feed, readFailed,
               nmIn, nmOut,
      life, viewer>>

\* const limit = config.SYNC_LIMIT || <default>
Limit ==
    IF config.SYNC_LIMIT # 0 THEN config.SYNC_LIMIT
    ELSE IF variant = 1 THEN DefaultLimit1 ELSE DefaultLimit2

\* The loop's next iteration that reaches fetchMessages, from index i on
\* (Len(chats) + 1: the loop ends).
NextChat(chats, i) ==
    LET rest == {k \in i..Len(chats) : ~Skipped(chats[k])}
    IN  IF rest = {} THEN Len(chats) + 1 ELSE Min(rest)

\* A mutant of ReplayOrder: the answer is replayed as fetched.
ReplayOrderAsFetched(messages) == messages

\* The order in which the loop over the fetched messages takes them:
\* variant 1 reverses the provider's answer (line 304), variant 2 does not
\* (line 497).
ReplayOrder(messages) == IF variant = 1 THEN Reverse(messages) ELSE messages

\* The loop stands before iteration i: it ends, or awaits fetchMessages.
AtIteration(s, chats, i) ==
    IF NextChat(chats, i) > Len(chats)
    THEN [s EXCEPT !.pc = "done", !.outcome = "complete", !.chats = chats,
                   !.i = Len(chats) + 1]
    ELSE [s EXCEPT !.pc = "fetch", !.chats = chats, !.i = NextChat(chats, i)]

\* The ready event: the handler calls syncRecentMessages, which awaits
\* client.getChats().
Ready ==
    /\ sync.pc = "off"
    /\ sync' = [sync EXCEPT !.pc = "getChats"]
    /\ UNCHANGED <<proc, faults, syncFrame>>

\* await client.getChats() answers.
SyncGetChatsOk ==
    /\ sync.pc = "getChats"
    /\ sync' = AtIteration(sync, ChatList, 1)
    /\ UNCHANGED <<proc, faults, syncFrame>>

\* await client.getChats() throws: the catch of syncRecentMessages logs.
SyncGetChatsThrows ==
    /\ sync.pc = "getChats"
    /\ faults < MaxFaults
    /\ faults' = faults + 1
    /\ sync' = [sync EXCEPT !.pc = "done", !.outcome = "error"]
    /\ UNCHANGED <<proc, syncFrame>>

\* await chat.fetchMessages() answers; the loop over the messages calls
\* processMessage on the first one and awaits it.
SyncFetchOk ==
    /\ sync.pc = "fetch"
    /\ LET c == sync.chats[sync.i]
           msgs == ReplayOrder(FetchMessages(c, Limit))
       IN  /\ sync' = [sync EXCEPT !.msgs = msgs, !.j = 1,
                                   !.fetched = @ \cup {c},
                                   !.pc = IF msgs = <<>> THEN "delay" ELSE "await"]
           /\ proc' = IF msgs = <<>> THEN proc ELSE [proc EXCEPT ![0] = Started(msgs[1])]
    /\ UNCHANGED <<faults, syncFrame>>

\* await chat.fetchMessages() throws: the try block encloses the whole loop,
\* so the catch of syncRecentMessages ends the pass.
SyncFetchThrows ==
    /\ sync.pc = "fetch"
    /\ faults < MaxFaults
    /\ faults' = faults + 1
    /\ sync' = [sync EXCEPT !.pc = "done", !.outcome = "error"]
    /\ UNCHANGED <<proc, syncFrame>>

\* A mutant of SyncReturn: a media failure of the message ends the pass.
SyncReturnEndsOnMediaError ==
    /\ sync.pc = "await"
    /\ proc[0].pc = "done"
    /\ IF proc[0].outcome = "mediaError"
       THEN /\ sync' = [sync EXCEPT !.pc = "done", !.outcome = "error"]
            /\ proc' = proc
       ELSE IF sync.j < Len(sync.msgs)
       THEN /\ sync' = [sync EXCEPT !.j = @ + 1]
            /\ proc' = [proc EXCEPT ![0] = Started(sync.msgs[sync.j + 1])]
       ELSE /\ sync' = [sync EXCEPT !.pc = "delay"]
            /\ proc' = proc
    /\ UNCHANGED <<faults, syncFrame>>

\* await processMessage(msg) returns: the next message, or the pause.
SyncReturn ==
    /\ sync.pc = "await"
    /\ proc[0].pc = "done"
    /\ IF sync.j < Len(sync.msgs)
       THEN /\ sync' = [sync EXCEPT !.j = @ + 1]
            /\ proc' = [proc EXCEPT ![0] = Started(sync.msgs[sync.j + 1])]
       ELSE /\ sync' = [sync EXCEPT !.pc = "delay"]
            /\ proc' = proc
    /\ UNCHANGED <<faults, syncFrame>>

\* await new Promise(r => setTimeout(r, 500)) ends: the next conversation.
SyncDelay ==
    /\ sync.pc = "delay"
    /\ sync' = AtIteration(sync, sync.chats, sync.i + 1)
    /\ UNCHANGED <<proc, faults, syncFrame>>

SyncDriver ==
    \/ Ready
    \/ SyncGetChatsOk
    \/ SyncGetChatsThrows
    \/ SyncFetchOk
    \/ SyncFetchThrows
    \/ SyncReturn
    \/ SyncDelay

\* The startup pass alone: no live event arrives.
InitSync ==
    /\ ToolInit([dirs |-> {}, logs |-> <<>>])
    /\ NamesIdle

NextSync == SyncDriver \/ ProcessMessage(0)

SpecSync == InitSync /\ [][NextSync]_vars

\* ------------------------------------------------------------------------
\* Live events
\* ------------------------------------------------------------------------
\* The messages message_create events carry.
LiveMessages == {msg \in Messages : msg.chat = "A"} \cup {Msg(1, "G"), Msg(3, "B")}

\* A message_create event: the handler calls processMessage, which awaits
\* msg.getChat().  Nothing makes the handler wait for another invocation.
MessageCreate(p) ==
    /\ proc[p].pc = "idle"
    /\ \A q \in LiveSlots : q < p => proc[q].pc # "idle"
    /\ \E msg \in LiveMessages : proc' = [proc EXCEPT ![p] = Started(msg)]
    /\ UNCHANGED <<variant, config, chatDirs, logs, mediaDirs, media, sync, faults, calls,
                   feed, readFailed, nmIn, nmOut,
      life, viewer>>

\* The handlers of live events, interleaved at their awaits.
InitLive ==
    /\ ToolInit([dirs |-> {}, logs |-> <<>>])
    /\ config.SYNC_LIMIT = 0
    /\ NamesIdle

NextLive == \E p \in LiveSlots : MessageCreate(p) \/ ProcessMessage(p)

SpecLive == InitLive /\ [][NextLive]_vars

\* ------------------------------------------------------------------------
\* The startup pass with a live event
\* ------------------------------------------------------------------------
\* A message_create event that arrives once the client is ready.  The
\* listener of lines 142-144 is registered at load time and is not held back
\* by the ready handler's await of syncRecentMessages.
LiveEvent ==
    /\ sync.pc # "off"
    /\ MessageCreate(1)

\* SYNC_LIMIT is set, so the pass replays the newest two messages of each
\* conversation.
InitTool ==
    /\ ToolInit([dirs |-> {}, logs |-> <<>>])
    /\ config.SYNC_LIMIT # 0
    /\ NamesIdle

NextTool == SyncDriver \/ ProcessMessage(0) \/ LiveEvent \/ ProcessMessage(1)

SpecTool == InitTool /\ [][NextTool]_vars

\* ------------------------------------------------------------------------
\* The disconnected handler
\* ------------------------------------------------------------------------
shutdownFrame == <<variant, config, chatDirs, logs, mediaDirs, media, proc, sync, faults,
                   calls, feed, readFailed, nmIn, nmOut, viewer>>

\* The provider emits 'disconnected'.  Variant 1 registers a handler (lines
\* 152-168), which logs and awaits client.destroy(); variant 2 registers
\* none, so the event has no effect and the process stays as it is.
Disconnected ==
    /\ life.pc = "up"
    /\ life' = [life EXCEPT !.pc = IF variant = 1 THEN "destroy" ELSE "unhandled"]
    /\ UNCHANGED shutdownFrame

\* await client.destroy() answers.
DestroyOk ==
    /\ life.pc = "destroy"
    /\ life' = [life EXCEPT !.pc = "timer", !.destroyed = "ok"]
    /\ UNCHANGED shutdownFrame

\* await client.destroy() throws: the catch logs and the handler goes on.
DestroyThrows ==
    /\ life.pc = "destroy"
    /\ life' = [life EXCEPT !.pc = "timer", !.destroyed = "threw"]
    /\ UNCHANGED shutdownFrame

\* The 2000 ms timer fires: process.exit(0).
ExitAfterDelay ==
    /\ life.pc = "timer"
    /\ life' = [life EXCEPT !.pc = "exited", !.code = 0]
    /\ UNCHANGED shutdownFrame

Shutdown == Disconnected \/ DestroyOk \/ DestroyThrows \/ ExitAfterDelay

\* A live handler at work while the connection drops; nothing runs once
\* the process has exited.
LiveUntilExit ==
    /\ life.pc # "exited"
    /\ (MessageCreate(1) \/ ProcessMessage(1))

InitShutdown ==
    /\ ToolInit([dirs |-> {}, logs |-> <<>>])
    /\ config.SYNC_LIMIT = 0
    /\ NamesIdle

NextShutdown == LiveUntilExit \/ Shutdown

\* A pending promise is settled and a timer fires: the handler's awaits end.
SpecShutdown ==
    /\ InitShutdown
    /\ [][NextShutdown]_vars
    /\ WF_vars(DestroyOk \/ DestroyThrows)
    /\ WF_vars(ExitAfterDelay)

\* ------------------------------------------------------------------------
\* The Archival Writer alone
\* ------------------------------------------------------------------------
\* A caller that feeds appendToJson(filePath, newData) one record after
\* another, on one log file.
WriterCall ==
    /\ Resting(0)
    /\ calls < MaxFeeds
    /\ calls' = calls + 1
    /\ \E msg \in SeqMessages :
          /\ proc' = [proc EXCEPT ![0] =
                        [IdleProc EXCEPT !.pc = "apExists", !.msg = msg, !.base = FolderA]]
          /\ feed' = Append(feed, <<FolderA, msg.id>>)
    /\ UNCHANGED <<variant, config, chatDirs, logs, mediaDirs, media, sync, faults,
                   readFailed, nmIn, nmOut,
      life, viewer>>

\* The log is absent or empty; appendToJson returns to its caller (the
\* switches are off, so no step of processMessage follows).
InitWriter ==
    /\ \E disk \in {d \in InitialDisks : \A b \in DOMAIN d.logs : d.logs[b] = GoodLog(<<>>)} :
          ToolInit(disk)
    /\ config = [SAVE_GROUPS |-> FALSE, SAVE_MESSAGES |-> FALSE, SAVE_MEDIA |-> FALSE,
                 SYNC_LIMIT |-> 0]
    /\ NamesIdle

NextWriter == WriterCall \/ ApExists(0) \/ ApReadOk(0) \/ ApWrite(0)

SpecWriter == InitWriter /\ [][NextWriter]_vars

\* ------------------------------------------------------------------------
\* The Path Resolver alone
\* ------------------------------------------------------------------------
\* One call of the Path Resolver on the drawn input.
Resolve ==
    /\ ~nmOut.done
    /\ LET r == ResolveBase(nmIn.variant, InputChat(nmIn), nmIn.msgFrom, InputLookup(nmIn))
       IN  nmOut' = [done |-> TRUE, threw |-> r.threw, base |-> r.base]
    /\ UNCHANGED <<variant, config, chatDirs, logs, mediaDirs, media, proc, sync, faults,
                   calls, feed, readFailed, nmIn, life, viewer>>

InitNames ==
    /\ ToolInit([dirs |-> {}, logs |-> <<>>])
    /\ variant = 1
    /\ config = [SAVE_GROUPS |-> TRUE, SAVE_MESSAGES |-> TRUE, SAVE_MEDIA |-> TRUE,
                 SYNC_LIMIT |-> 0]
    /\ nmIn \in ResolverInputs
    /\ nmOut = [done |-> FALSE]

NextNames == Resolve

SpecNames == InitNames /\ [][NextNames]_vars

\* ------------------------------------------------------------------------
\* The viewer (lines 1-89)
\* ------------------------------------------------------------------------
NaN == [nan |-> TRUE, val |-> 0]

DigitValue(c) == CHOOSE n \in 0..9 : ToString(n) = c

\* The longest prefix of decimal digits.
RECURSIVE LeadingDigits(_)
LeadingDigits(s) ==
    IF s # <<>> /\ Head(s) \in Digits THEN <<Head(s)>> \o LeadingDigits(Tail(s)) ELSE <<>>

RECURSIVE DecimalValue(_)
DecimalValue(ds) ==
    IF ds = <<>> THEN 0
    ELSE 10 * DecimalValue(SubSeq(ds, 1, Len(ds) - 1)) + DigitValue(ds[Len(ds)])

\* parseInt(answer): leading white space is skipped, a sign is taken, then
\* the longest run of digits; what follows is ignored; no digit gives NaN.
parseInt(answer) ==
    LET t == Trim(answer)
        signed == t # <<>> /\ Head(t) \in {"-", "+"}
        ds == LeadingDigits(IF signed THEN Tail(t) ELSE t)
    IN  IF ds = <<>> THEN NaN
        ELSE [nan |-> FALSE,
              val |-> IF Head(t) = "-" THEN 0 - DecimalValue(ds) ELSE DecimalValue(ds)]

\* num === 0
IsZero(num) == ~num.nan /\ num.val = 0

\* num > 0 && num <= chatFolders.length
InRange(num, length) == ~num.nan /\ num.val > 0 /\ num.val <= length

\* What may be typed at the prompt.
Answers ==
    {<<"0">>, <<"1">>, <<"2">>, <<"3">>, <<"-", "1">>, <<"x">>, <<>>, <<"1", "x">>,
     <<" ", "2">>, <<"0", "2">>}

\* A messages.json that parses to something that is not an array.
ObjectLog == [ok |-> TRUE, data |-> <<>>, notArray |-> TRUE]

IsArray(log) == "notArray" \notin DOMAIN log

\* The folders a backup directory may hold, and what a folder may hold: no
\* messages.json, one without records, one with two records, one that does
\* not parse, one that parses to an object.
ViewerFolders == {FolderA, <<"B", "_", "o">>}

FolderContents ==
    {"none", "empty", "two", "corrupt", "object"}

LogOfContent(content) ==
    CASE content = "empty" -> GoodLog(<<>>)
      [] content = "two" -> GoodLog(<<MessageData(Msg(1, "A")), MessageData(Msg(2, "A"))>>)
      [] content = "corrupt" -> CorruptLog
      [] OTHER -> ObjectLog

ViewerDisks ==
    {[dirs |-> DOMAIN holds,
      logs |-> [b \in {f \in DOMAIN holds : holds[f] # "none"} |-> LogOfContent(holds[b])]] :
        holds \in UNION {[fs -> FolderContents] : fs \in SUBSET ViewerFolders}}

\* fs.readdir's answers: the entries in some order.
Listings(dirs) ==
    {l \in UNION {[1..n -> dirs] : n \in {Cardinality(dirs)}} :
        \A j, k \in 1..Len(l) : j # k => l[j] # l[k]}

\* A mutant of CloseRl: the interface is left open.
CloseRlMissing(v) == [v EXCEPT !.pc = "closed"]

\* rl.close(); the function returns and nothing else is pending.
CloseRl(v) == [v EXCEPT !.pc = "closed", !.closes = @ + 1]

\* console.log / console.error of one of the viewer's messages.
Say(v, what) == [v EXCEPT !.out = Append(@, what)]

\* A mutant of NoChats: the test of the empty listing is missing.
NoChatsNever(chatFolders) == FALSE

\* chatFolders.length === 0
NoChats(chatFolders) == Len(chatFolders) = 0

viewerFrame == <<variant, config, chatDirs, logs, mediaDirs, media, proc, sync, faults,
                 calls, feed, readFailed, nmIn, nmOut, life>>

\* listChats() is called (line 89) and awaits fs.readdir(backupDir).
ListChats ==
    /\ viewer.pc = "off"
    /\ viewer' = [viewer EXCEPT !.pc = "readdir"]
    /\ UNCHANGED viewerFrame

\* await fs.readdir(backupDir) answers: no entry ends the run; otherwise the
\* entries are listed and rl.question puts the prompt.
ReaddirOk ==
    /\ viewer.pc = "readdir"
    /\ \E chatFolders \in Listings(chatDirs) :
          viewer' = IF NoChats(chatFolders)
                    THEN CloseRl(Say(viewer, "noChats"))
                    ELSE [Say(viewer, "list") EXCEPT !.pc = "question",
                                                     !.folders = chatFolders,
                                                     !.prompted = TRUE]
    /\ UNCHANGED viewerFrame

\* await fs.readdir(backupDir) throws (the directory is missing): catch.
ReaddirThrows ==
    /\ viewer.pc = "readdir"
    /\ viewer' = CloseRl(Say(viewer, "errorChats"))
    /\ UNCHANGED viewerFrame

\* The callback of rl.question runs on the typed answer; a valid number
\* calls displayChat, which awaits fs.pathExists(messagesFile).
Answer ==
    /\ viewer.pc = "question"
    /\ \E answer \in Answers :
          LET num == parseInt(answer)
          IN  viewer' =
                  IF IsZero(num) THEN CloseRl(viewer)
                  ELSE IF InRange(num, Len(viewer.folders))
                  THEN [viewer EXCEPT !.pc = "pathExists",
                                      !.selected = viewer.folders[num.val]]
                  ELSE CloseRl(Say(viewer, "invalid"))
    /\ UNCHANGED viewerFrame

\* displayChat: await fs.pathExists(messagesFile) answers.
DisplayPathExists ==
    /\ viewer.pc = "pathExists"
    /\ viewer' = IF viewer.selected \in DOMAIN logs
                 THEN [viewer EXCEPT !.pc = "readJson"]
                 ELSE CloseRl(Say(viewer, "noMessages"))
    /\ UNCHANGED viewerFrame

\* displayChat: await fs.readJson(messagesFile) answers; the header is
\* printed, then every message; messages.forEach throws when the value is
\* not an array, which the catch reports.
DisplayReadOk ==
    /\ viewer.pc = "readJson"
    /\ logs[viewer.selected].ok
    /\ LET log == logs[viewer.selected]
       IN  viewer' =
               IF IsArray(log)
               THEN CloseRl([Say(Say(viewer, "chat"), "total") EXCEPT
                                !.shown = Len(log.data)])
               ELSE CloseRl(Say(Say(viewer, "chat"), "errorDisplay"))
    /\ UNCHANGED viewerFrame

\* displayChat: await fs.readJson(messagesFile) throws: catch.
DisplayReadThrows ==
    /\ viewer.pc = "readJson"
    /\ ~logs[viewer.selected].ok
    /\ viewer' = CloseRl(Say(viewer, "errorDisplay"))
    /\ UNCHANGED viewerFrame

Viewer ==
    \/ ListChats
    \/ ReaddirOk
    \/ ReaddirThrows
    \/ Answer
    \/ DisplayPathExists
    \/ DisplayReadOk
    \/ DisplayReadThrows

InitViewer ==
    /\ \E disk \in ViewerDisks : ToolInit(disk)
    /\ variant = 1
    /\ config = [SAVE_GROUPS |-> TRUE, SAVE_MESSAGES |-> TRUE, SAVE_MEDIA |-> TRUE,
                 SYNC_LIMIT |-> 0]
    /\ NamesIdle

NextViewer == Viewer

\* Pending file-system promises settle and the user types an answer.
SpecViewer == InitViewer /\ [][NextViewer]_vars /\ WF_vars(Viewer)

\* ------------------------------------------------------------------------
\* Helpers of the properties
\* ------------------------------------------------------------------------
\* The ids of a sequence of records.
IdsOf(data) == [k \in 1..Len(data) |-> data[k].id]

NoRepeat(ids) == \A j, k \in 1..Len(ids) : j # k => ids[j] # ids[k]

\* Each id once, at the place of its first occurrence.
RECURSIVE FirstSeen(_)
FirstSeen(ids) ==
    IF ids = <<>> THEN <<>>
    ELSE LET front == FirstSeen(SubSeq(ids, 1, Len(ids) - 1))
             last == ids[Len(ids)]
         IN  IF \E k \in 1..Len(front) : front[k] = last THEN front ELSE Append(front, last)

\* The ids fed to folder b, in the order of the feed.
RECURSIVE FedTo(_, _)
FedTo(b, fd) ==
    IF fd = <<>> THEN <<>>
    ELSE LET front == FedTo(b, SubSeq(fd, 1, Len(fd) - 1))
             last == fd[Len(fd)]
         IN  IF last[1] = b THEN Append(front, last[2]) ELSE front

\* The folders whose messages.json parses.
ReadableLogs == {b \in DOMAIN logs : logs[b].ok}

\* ------------------------------------------------------------------------
\* C1
\* ------------------------------------------------------------------------
\* C1: with processMessage calls made one at a time, SAVE_MESSAGES on and
\* every log read succeeding, no messages.json holds two records of one id,
\* and once the calls have returned its records are, in order, the first
\* occurrences of the ids processed for it.
C1_NoDuplicateInOrder ==
    (config.SAVE_MESSAGES /\ ~readFailed) =>
        \A b \in ReadableLogs :
            /\ NoRepeat(IdsOf(logs[b].data))
            /\ Resting(0) => IdsOf(logs[b].data) = FirstSeen(FedTo(b, feed))

\* An id came back after another one, and the log kept one record of each.
C1_Witness ==
    /\ config.SAVE_MESSAGES
    /\ ~readFailed
    /\ Resting(0)
    /\ \E b \in ReadableLogs :
          /\ FedTo(b, feed) = <<1, 2, 1>>
          /\ IdsOf(logs[b].data) = <<1, 2>>

\* ------------------------------------------------------------------------
\* C2
\* ------------------------------------------------------------------------
\* The ids with every run of equal neighbours collapsed to its first.
RECURSIVE CollapseRuns(_)
CollapseRuns(ids) ==
    IF ids = <<>> THEN <<>>
    ELSE LET front == CollapseRuns(SubSeq(ids, 1, Len(ids) - 1))
             last == ids[Len(ids)]
         IN  IF front # <<>> /\ front[Len(front)] = last THEN front ELSE Append(front, last)

C3_RewriteFromOwnCopy ==
    [][\A p \in Slots :
          (proc[p].pc = "apWrite" /\ proc'[p].pc # "apWrite") =>
              logs'[proc[p].base] =
                  GoodLog(Append(proc[p].data, MessageData(proc[p].msg)))]_vars

\* Two handlers of one conversation, for two ids, both read the absent log
\* before either rewrote it; nothing failed, both returned, and the log
\* holds one record.
C3_Witness ==
    \E p, q \in LiveSlots :
        /\ p # q
        /\ faults = 0
        /\ proc[p].pc = "done" /\ proc[q].pc = "done"
        /\ proc[p].outcome \notin {"chatError", "contactError", "mediaError"}
        /\ proc[q].outcome \notin {"chatError", "contactError", "mediaError"}
        /\ proc[p].msg.chat = proc[q].msg.chat
        /\ proc[p].msg.id # proc[q].msg.id
        /\ proc[p].base = proc[q].base
        /\ config.SAVE_MESSAGES
        /\ ~proc[p].isDup /\ ~proc[q].isDup
        /\ proc[p].data = <<>> /\ proc[q].data = <<>>
        /\ Len(feed) = 2
        /\ proc[p].base \in ReadableLogs
        /\ IdsOf(logs[proc[p].base].data) = <<proc[q].msg.id>>

\* ------------------------------------------------------------------------
\* C4
\* ------------------------------------------------------------------------
Ascending(ids) == \A j, k \in 1..Len(ids) : j < k => ids[j] < ids[k]

\* C4: the Sync Driver replays every fetched history oldest first, so that
\* from an empty disk every log is in chronological order (ids 3,2,1 from
\* the provider are archived as 1,2,3).
C4_ReplayedOldestFirst ==
    /\ sync.pc = "await" => Ascending(IdsOf(sync.msgs))
    /\ (sync.pc = "done" /\ faults = 0) =>
           \A b \in ReadableLogs : Ascending(IdsOf(logs[b].data))

\* What holds of variant 1 alone (the reverse of line 304).
C4_Variant1Chronological == variant = 1 => C4_ReplayedOldestFirst

\* ------------------------------------------------------------------------
\* C5
\* ------------------------------------------------------------------------
\* C5: when the fetch of one conversation fails, the pass goes on: at its end
\* every other conversation of the enumeration that is not a disabled group
\* has been fetched.
C5_ContinuesAfterFetchError ==
    (sync.pc = "done" /\ sync.chats # <<>>) =>
        \A k \in 1..Len(sync.chats) :
            (~Skipped(sync.chats[k]) /\ ~(sync.outcome = "error" /\ k = sync.i))
                => sync.chats[k] \in sync.fetched

\* ------------------------------------------------------------------------
\* C6
\* ------------------------------------------------------------------------
\* C6: checkDuplicate answers true exactly when the log is there, is read
\* and holds a record of the id; it answers false for an absent log, one
\* without records and one whose read throws; it returns normally and
\* leaves the disk as it was.
C6_DuplicateFilter ==
    [][\A p \in Slots :
          (proc[p].pc \in {"dupExists", "dupRead"}
             /\ proc'[p].pc \notin {"dupExists", "dupRead"}) =>
              LET b == proc[p].base
                  readable == b \in DOMAIN logs /\ logs[b].ok /\ faults' = faults
              IN  /\ proc'[p].isDup <=>
                        (readable /\ \E k \in 1..Len(logs[b].data) :
                                        logs[b].data[k].id = proc[p].msg.id)
                  /\ proc'[p].outcome = "none"
                  /\ proc'[p].pc = IF proc'[p].isDup THEN AfterLog(proc[p].msg)
                                   ELSE "apExists"
                  /\ logs' = logs /\ chatDirs' = chatDirs]_vars

\* The log found on disk did not parse, so the filter answered false and
\* the record was written; later the filter found an id that is not the
\* last record's.
C6_Witness ==
    /\ readFailed
    /\ proc[0].pc = "done"
    /\ proc[0].isDup
    /\ proc[0].msg.id = 1
    /\ proc[0].base \in ReadableLogs
    /\ IdsOf(logs[proc[0].base].data) = <<1, 2>>

RECURSIVE Underscored(_)
Underscored(s) ==
    IF s = <<>> THEN <<>>
    ELSE <<IF Head(s) \in SafeChars THEN Head(s) ELSE "_">> \o Underscored(Tail(s))

RECURSIVE StripFront(_)
StripFront(s) ==
    IF s # <<>> /\ Head(s) \in WhiteSpace THEN StripFront(Tail(s)) ELSE s

RECURSIVE StripBack(_)
StripBack(s) ==
    IF s # <<>> /\ s[Len(s)] \in WhiteSpace THEN StripBack(SubSeq(s, 1, Len(s) - 1)) ELSE s

Stripped(s) == StripBack(StripFront(s))

ClaimedFolder(name) == Stripped(Underscored(name))

\* The resolver was given a display name to use: a group's subject, or the
\* name of the contact a lookup found.
UsesDisplayName == nmIn.name # <<>> /\ (nmIn.isGroup \/ nmIn.lookupOk)

\* C8 as stated: for every display name the folder name is the name with
\* each character outside [A-Za-z0-9_- ] replaced by '_' and then trimmed.
C8_FolderIsSanitizedName ==
    (nmOut.done /\ UsesDisplayName) => nmOut.base = ClaimedFolder(nmIn.name)

\* C8 as amended: that holds of a contact's name and of a group's subject in
\* variant 2; variant 1 trims a group's subject before it replaces, and
\* takes the conversation id when nothing is left.  "O'Brien/Team #1" gives
\* "O_Brien_Team _1" in every case.
C8_SanitizedAfterGroupTrim ==
    (nmOut.done /\ UsesDisplayName) =>
        /\ (~nmIn.isGroup \/ nmIn.variant = 2) => nmOut.base = ClaimedFolder(nmIn.name)
        /\ (nmIn.isGroup /\ nmIn.variant = 1) =>
               nmOut.base = IF Stripped(nmIn.name) # <<>>
                            THEN ClaimedFolder(Stripped(nmIn.name))
                            ELSE ClaimedFolder(Serialized(InputChat(nmIn).id))
        /\ nmIn.name = ExampleName => nmOut.base = ExampleFolder

\* The example, resolved for a group by variant 1.
C8_Witness ==
    /\ nmOut.done
    /\ nmIn.isGroup
    /\ nmIn.variant = 1
    /\ nmIn.name = ExampleName
    /\ nmOut.base = ExampleFolder

\* ------------------------------------------------------------------------
\* C9
\* ------------------------------------------------------------------------
\* C9: name resolution never fails.  A processMessage call for a direct
\* conversation whose getChat answered ends with a folder name and, with
\* SAVE_MESSAGES on, with the message's record in that folder's log, whether
\* the contact lookup answered or threw.
C9_ResolutionNeverFails ==
    \A p \in Slots :
        (proc[p].pc = "done" /\ proc[p].outcome # "chatError"
            /\ ~ChatOf(proc[p].msg.chat).isGroup) =>
            /\ proc[p].outcome # "contactError"
            /\ proc[p].base \in chatDirs
            /\ config.SAVE_MESSAGES =>
                   /\ proc[p].base \in ReadableLogs
                   /\ SomeId(logs[proc[p].base].data, proc[p].msg.id)

\* What holds of variant 1 alone (the catch of lines 187-194).
C9_Variant1NeverFails == variant = 1 => C9_ResolutionNeverFails

\* ------------------------------------------------------------------------
\* C10
\* ------------------------------------------------------------------------
\* C10: every base name the Path Resolver returns is non-empty and made of
\* characters of [A-Za-z0-9_- ] only.
C10_FolderSafe ==
    (nmOut.done /\ ~nmOut.threw) =>
        /\ nmOut.base # <<>>
        /\ \A k \in 1..Len(nmOut.base) : nmOut.base[k] \in SafeChars

\* ------------------------------------------------------------------------
\* C11
\* ------------------------------------------------------------------------
\* The folder the Path Resolver gives a group conversation.
GroupFolder(c) == ResolveBase(variant, ChatOf(c), <<>>, [ok |-> FALSE]).base

\* The conversation a record belongs to: the addressee of a message sent by
\* me, the sender otherwise.
ConversationOf(record) == IF record.isSentByMe THEN record.to ELSE record.from

\* C11: with SAVE_GROUPS off no group message is archived.  The startup pass
\* does not fetch a group's history; an invocation for a group message,
\* live or replayed, ends at the group test; the group's folder, log, media
\* folder and media files do not exist and no log holds a group's record.
C11_GroupsNotArchived ==
    ~config.SAVE_GROUPS =>
        \A c \in ChatKeys :
            ChatOf(c).isGroup =>
                /\ c \notin sync.fetched
                /\ \A p \in Slots :
                      (proc[p].msg # NoMsg /\ proc[p].msg.chat = c) =>
                          /\ proc[p].pc \in {"getChat", "done"}
                          /\ proc[p].pc = "done" =>
                                 proc[p].outcome \in {"skipped", "chatError"}
                /\ GroupFolder(c) \notin chatDirs
                /\ GroupFolder(c) \notin DOMAIN logs
                /\ \A d \in mediaDirs : d[2] # GroupFolder(c)
                /\ \A f \in DOMAIN media : f.base # GroupFolder(c)
                /\ \A b \in ReadableLogs :
                      \A k \in 1..Len(logs[b].data) :
                          ConversationOf(logs[b].data[k]) # Serialized(ChatOf(c).id)

\* The pass went through the enumeration without the group, a live event
\* of the group was dropped at the group test, and the direct conversations
\* were archived.
C11_Witness ==
    /\ ~config.SAVE_GROUPS
    /\ sync.pc = "done"
    /\ sync.outcome = "complete"
    /\ sync.fetched = {"A", "B"}
    /\ proc[1].msg = Msg(1, "G")
    /\ proc[1].pc = "done"
    /\ proc[1].outcome = "skipped"
    /\ chatDirs # {}

\* ------------------------------------------------------------------------
\* C12
\* ------------------------------------------------------------------------
\* Every record of the log before the step is in the log after it, unchanged
\* and at its position.
RecordsKept ==
    \A b \in ReadableLogs :
        /\ b \in DOMAIN logs'
        /\ logs'[b].ok
        /\ Len(logs'[b].data) >= Len(logs[b].data)
        /\ SubSeq(logs'[b].data, 1, Len(logs[b].data)) = logs[b].data

\* C12: Message Records are created once and never updated or deleted: with
\* processMessage calls made one at a time, a record once written stays in
\* its log, unchanged and in place, also when a read of the log fails.
C12_RecordsNeverChange == [][RecordsKept]_vars

\* What holds as long as every read of a log succeeds.
C12_KeptWhileReadsSucceed == [][~readFailed' => RecordsKept]_vars

\* ------------------------------------------------------------------------
\* C13
\* ------------------------------------------------------------------------
\* C13: sync precedes live listening: no message_create event is processed
\* by processMessage before the startup pass has completed.
C13_SyncBeforeLive ==
    \A p \in LiveSlots : proc[p].pc # "idle" => sync.pc = "done"

\* ------------------------------------------------------------------------
\* C14
\* ------------------------------------------------------------------------
\* C14: on every disconnected event client.destroy() is attempted first and
\* the process then exits with code 0, also when destroy throws; it does not
\* exit before the attempt has ended.
C14_DestroyThenExit ==
    /\ [](life.pc \in {"timer", "exited"} => life.destroyed \in {"ok", "threw"})
    /\ [](life.pc = "exited" => life.code = 0)
    /\ (life.pc # "up") ~> (life.pc = "exited")

\* What holds of variant 1 alone (the handler of lines 152-168).
C14_Variant1DestroyThenExit ==
    /\ [](life.pc \in {"timer", "exited"} => life.destroyed \in {"ok", "threw"})
    /\ [](life.pc = "exited" => life.code = 0)
    /\ (variant = 1 /\ life.pc # "up") ~> (life.pc = "exited")

\* ------------------------------------------------------------------------
\* C15
\* ------------------------------------------------------------------------
\* The invocation in slot p returned after its media download or write failed.
MediaFailed(p) == proc[p].pc = "done" /\ proc[p].outcome = "mediaError"

\* C15: a media failure is isolated.  The invocation has returned (no error
\* leaves processMessage), with SAVE_MESSAGES on the message's record is in
\* the log, and the Sync Driver's next step takes the next message of the
\* conversation (or the pause after the last one): the pass does not end,
\* the failed message is not taken again, and the log and the media files
\* stay as they are.
C15_MediaFailureIsolated ==
    /\ [](\A p \in Slots :
            (MediaFailed(p) /\ config.SAVE_MESSAGES) =>
                /\ proc[p].base \in ReadableLogs
                /\ SomeId(logs[proc[p].base].data, proc[p].msg.id))
    /\ [][(sync.pc = "await" /\ MediaFailed(0)) =>
            /\ sync'.outcome = "none"
            /\ logs' = logs
            /\ media' = media
            /\ IF sync.j < Len(sync.msgs)
               THEN /\ sync'.pc = "await"
                    /\ proc'[0] = Started(sync.msgs[sync.j + 1])
                    /\ proc'[0].msg # proc[0].msg
               ELSE sync'.pc = "delay"]_vars

\* The download of a replayed message failed, its record is in the log, and
\* the conversation has a later message to replay.
C15_Witness ==
    /\ config.SAVE_MESSAGES
    /\ sync.pc = "await"
    /\ MediaFailed(0)
    /\ sync.j < Len(sync.msgs)
    /\ proc[0].base \in ReadableLogs
    /\ SomeId(logs[proc[0].base].data, proc[0].msg.id)
    /\ \A f \in DOMAIN media : f.id # proc[0].msg.id

\* ------------------------------------------------------------------------
\* C16
\* ------------------------------------------------------------------------
Printed(what) == \E k \in 1..Len(viewer.out) : viewer.out[k] = what

\* C16: on a backup directory that exists and holds no folder, the viewer
\* prints "no chats found", puts no prompt and closes without an error
\* message; when the selected folder has no messages.json it prints "no
\* messages" and closes, without an error message.
C16_EmptyAndMissingLog ==
    viewer.pc = "closed" =>
        /\ (chatDirs = {} /\ ~Printed("errorChats")) =>
               /\ viewer.out = <<"noChats">>
               /\ ~viewer.prompted
               /\ viewer.closes = 1
        /\ (viewer.selected # <<>> /\ viewer.selected \notin DOMAIN logs) =>
               /\ viewer.out = <<"list", "noMessages">>
               /\ viewer.closes = 1

\* A folder without messages.json was selected, in a directory that also
\* holds a folder with one.
C16_Witness ==
    /\ viewer.pc = "closed"
    /\ viewer.selected # <<>>
    /\ viewer.selected \notin DOMAIN logs
    /\ DOMAIN logs # {}
    /\ viewer.out = <<"list", "noMessages">>
    /\ viewer.closes = 1

\* ------------------------------------------------------------------------
\* C19
\* ------------------------------------------------------------------------
\* C19: the viewer always terminates: whatever the directory holds, whatever
\* is typed and whatever the reads answer, the run closes the readline
\* interface, and closes it once.
C19_ClosesOnce ==
    /\ [](viewer.closes = IF viewer.pc = "closed" THEN 1 ELSE 0)
    /\ <>(viewer.pc = "closed")

\* The run closed after a log that parses to something other than an array.
C19_Witness ==
    /\ viewer.pc = "closed"
    /\ viewer.closes = 1
    /\ viewer.selected \in DOMAIN logs
    /\ ~IsArray(logs[viewer.selected])
    /\ viewer.out = <<"list", "chat", "errorDisplay">>

\* ------------------------------------------------------------------------
\* C17
\* ------------------------------------------------------------------------
\* C17: also when processMessage invocations of one conversation interleave
\* at their awaits (a live event for a message the startup pass replays as
\* well), no messages.json holds two records of one id.
C17_NoDuplicateInterleaved ==
    \A b \in ReadableLogs : NoRepeat(IdsOf(logs[b].data))

\* ------------------------------------------------------------------------
\* C18
\* ------------------------------------------------------------------------
\* The invocation in slot p has its folder name.
Resolved(p) ==
    proc[p].msg # NoMsg /\ proc[p].pc \notin {"idle", "getChat", "resolve"}
        /\ proc[p].outcome \notin {"skipped", "chatError", "contactError"}

\* C18: distinct conversations never share a log: invocations for messages
\* of two conversations get two folder names, and no messages.json holds
\* records of two conversations.
C18_OneConversationPerLog ==
    /\ \A p, q \in Slots :
          (Resolved(p) /\ Resolved(q) /\ proc[p].msg.chat # proc[q].msg.chat) =>
              proc[p].base # proc[q].base
    /\ \A b \in ReadableLogs :
          \A j, k \in 1..Len(logs[b].data) :
              ConversationOf(logs[b].data[j]) = ConversationOf(logs[b].data[k])

\* ------------------------------------------------------------------------
\* C20
\* ------------------------------------------------------------------------
\* The step is one of the invocation in slot p, which goes on with its message.
StepOf(p) == proc[p].msg # NoMsg /\ proc'[p] # proc[p] /\ proc'[p].msg = proc[p].msg

MediaOutcomes == {"mediaSaved", "mediaKept", "noMedia", "mediaError"}

\* C20: the save switches are frame conditions of processMessage.  With
\* SAVE_MESSAGES off no step creates or changes a messages.json; with
\* SAVE_MEDIA off, or for a message without media, no step creates a media
\* folder or file; an invocation that found its message in the log leaves
\* every log as it is, and still runs the media branch, so that the file is
\* there when the download and the write succeed.
C20_SwitchFrames ==
    /\ [][/\ ~config.SAVE_MESSAGES => logs' = logs
          /\ ~config.SAVE_MEDIA => (media' = media /\ mediaDirs' = mediaDirs)
          /\ \A p \in Slots :
                (StepOf(p) /\ ~proc[p].msg.hasMedia) =>
                    (media' = media /\ mediaDirs' = mediaDirs)
          /\ \A p \in Slots :
                (StepOf(p) /\ proc[p].isDup) => logs' = logs]_vars
    /\ [](\A p \in Slots :
            (proc[p].pc = "done" /\ proc[p].isDup /\ config.SAVE_MEDIA
                /\ proc[p].msg.hasMedia) =>
                /\ proc[p].outcome \in MediaOutcomes
                /\ proc[p].outcome \in {"mediaSaved", "mediaKept"} =>
                       MediaPath(proc[p].msg, proc[p].base, proc[p].mime) \in DOMAIN media)

\* A message that is in the log already, whose media file was missing, was
\* processed again: the log kept its one record and the file was written.
C20_Witness ==
    /\ config.SAVE_MESSAGES
    /\ config.SAVE_MEDIA
    /\ proc[0].pc = "done"
    /\ proc[0].isDup
    /\ proc[0].outcome = "mediaSaved"
    /\ IdsOf(logs[proc[0].base].data) = <<proc[0].msg.id>>
    /\ DOMAIN media = {MediaPath(proc[0].msg, proc[0].base, proc[0].mime)}

====
